---- MODULE Spec2Model ----
(***************************************************************************)
(* Model of the certificate page (pages/Certificate.tsx) and of the        *)
(* payment flow (components/PaymentModal.tsx: the PaymentModal component   *)
(* and the verify-payment handler).                                        *)
(*                                                                         *)
(* Six specifications share the module:                                    *)
(*   SpecClassify  applies scoreToCefr and getCefrLabel to integer scores; *)
(*   SpecCert      runs the effect of the Certificate component once;      *)
(*   SpecCertNav   lets the route change while the component is mounted;   *)
(*   SpecCertLive  is the mounted page with every store call settling;     *)
(*   SpecAward     applies formatAwardDate to date strings;                *)
(*   SpecPay       runs the payment modal and the verify-payment handler.  *)
(* Each specification leaves the variables of the others at their initial  *)
(* values.                                                                 *)
(***************************************************************************)
EXTENDS Integers, Sequences, FiniteSets, Bags, TLC

VARIABLES
    scoreA, scoreB,     \* arguments handed to scoreToCefr
    cefrA, cefrB,       \* results of scoreToCefr, None before the call
    labelA, labelB,     \* getCefrLabel of the results, None before the call
    dateStr,            \* argument handed to formatAwardDate, as its words
    awardDate,          \* result of formatAwardDate, None before the call
    loading,            \* Certificate: useState(true)
    certificateData,    \* Certificate: useState<CertificateData | null>(null)
    location,           \* the route: useParams().id and useLocation().state
    effectDue,          \* the effect has to run: after mount or a change of its deps
    fetches,            \* runs of fetchCertificateData: position and locals of each
    candidateNameItem,  \* localStorage item 'candidateName'
    ledger,             \* table payment_transactions, a sequence of rows
    calls,              \* runs of the verify-payment handler that have not returned, a bag
    response,           \* the Response a run of the handler returns in this step
    started,            \* number of runs of the handler started so far
    overwritten,        \* statuses of the rows the update of this step wrote over
    modal,              \* PaymentModal: position of the payment flow and its closure
    localStore,         \* localStorage items hasPaid and paymentReference
    now,                \* the clock, as last read by new Date().getTime()
    env                 \* Deno.env of the verify-payment handler

classifyVars == <<scoreA, scoreB, cefrA, cefrB, labelA, labelB>>
awardVars    == <<dateStr, awardDate>>
certVars     == <<loading, certificateData, location, effectDue, fetches,
                  candidateNameItem>>
payVars      == <<ledger, calls, response, started, overwritten, modal, localStore,
                  now, env>>
vars         == <<scoreA, scoreB, cefrA, cefrB, labelA, labelB, dateStr, awardDate,
                  loading, certificateData, location, effectDue, fetches,
                  candidateNameItem,
                  ledger, calls, response, started, overwritten, modal, localStore,
                  now, env>>

(***************************************************************************)
(* Optional values: None is null / undefined, Some(x) a present value.     *)
(***************************************************************************)
None == <<>>
Some(x) == <<x>>
IsSome(o) == Len(o) = 1
Get(o) == o[1]

(***************************************************************************)
(* Bounds of the model.                                                    *)
(***************************************************************************)
ScoreMargin == 12   \* scoreToCefr is applied to -ScoreMargin .. MaxScore + ScoreMargin
ScoreDenom == 2     \* stored skill scores are multiples of 1 / ScoreDenom
FractionSteps == 2  \* stored skill scores: an edge plus 0 .. FractionSteps-1 fractions
MaxNavigations == 1 \* runs of fetchCertificateData after the first one
MaxRows == 2        \* rows the ledger can hold
MaxCalls == 2       \* runs of the verify-payment handler
MaxTime == 1        \* largest clock value

MaxScore == 100

(***************************************************************************)
(* Level Classifier: scoreToCefr                                           *)
(***************************************************************************)
scoreToCefrStrict(score) ==
    IF score > 86 THEN "C2"
    ELSE IF score > 71 THEN "C1"
    ELSE IF score > 51 THEN "B2"
    ELSE IF score > 41 THEN "B1"
    ELSE IF score > 21 THEN "A2"
    ELSE IF score > 11 THEN "A1"
    ELSE "A0"

scoreToCefrSwapped(score) ==
    IF score >= 86 THEN "C2"
    ELSE IF score >= 71 THEN "C1"
    ELSE IF score >= 51 THEN "B1"
    ELSE IF score >= 41 THEN "B2"
    ELSE IF score >= 21 THEN "A2"
    ELSE IF score >= 11 THEN "A1"
    ELSE "A0"

scoreToCefr(score) ==
    IF score >= 86 THEN "C2"
    ELSE IF score >= 71 THEN "C1"
    ELSE IF score >= 51 THEN "B2"
    ELSE IF score >= 41 THEN "B1"
    ELSE IF score >= 21 THEN "A2"
    ELSE IF score >= 11 THEN "A1"
    ELSE "A0"

\* getCefrLabel: labels[cefr] || ''
getCefrLabelNoNovice(cefr) ==
    LET labels == [C2 |-> "Proficient", C1 |-> "Advanced", B2 |-> "Upper Intermediate",
                   B1 |-> "Intermediate", A2 |-> "Elementary", A1 |-> "Beginner"]
    IN  IF cefr \in DOMAIN labels THEN labels[cefr] ELSE ""

getCefrLabel(cefr) ==
    LET labels == [C2 |-> "Proficient", C1 |-> "Advanced", B2 |-> "Upper Intermediate",
                   B1 |-> "Intermediate", A2 |-> "Elementary", A1 |-> "Beginner",
                   A0 |-> "Novice"]
    IN  IF cefr \in DOMAIN labels THEN labels[cefr] ELSE ""

ClassifyDomain == (0 - ScoreMargin) .. (MaxScore + ScoreMargin)

ClassifyA ==
    /\ cefrA = None
    /\ cefrA' = Some(scoreToCefr(scoreA))
    /\ labelA' = Some(getCefrLabel(scoreToCefr(scoreA)))
    /\ UNCHANGED <<scoreA, scoreB, cefrB, labelB>>

ClassifyB ==
    /\ cefrB = None
    /\ cefrB' = Some(scoreToCefr(scoreB))
    /\ labelB' = Some(getCefrLabel(scoreToCefr(scoreB)))
    /\ UNCHANGED <<scoreA, scoreB, cefrA, labelA>>


(***************************************************************************)
(* Certificate page                                                        *)
(*                                                                         *)
(* A stored skill score is a number or null.  Numbers are kept as          *)
(* fractions: the stored value h stands for h / ScoreDenom, so that        *)
(* Math.round has fractions to round.                                      *)
(***************************************************************************)
ScoreEdges == {0 - 3, 55, 104}
RawScores ==
    {None} \cup {Some(ScoreDenom * e + k) : e \in ScoreEdges, k \in 0 .. (FractionSteps - 1)}

\* Math.round of the rational num / den (den > 0): the nearest integer, an
\* exact half going towards +Infinity.
MathRoundHalfDown(num, den) == 0 - ((den - 2 * num) \div (2 * den))

MathRound(num, den) == (2 * num + den) \div (2 * den)

\* attempt.x_score ?? 0, as a number of fractions
OrZeroDefaultsToOne(raw) == IF IsSome(raw) THEN Get(raw) ELSE ScoreDenom

OrZero(raw) == IF IsSome(raw) THEN Get(raw) ELSE 0

Str_abc == <<"a", "b", "c", "1", "2", "3", "4", "5", "-", "x", "y", "z">>
Str_a1 == <<"a", "1">>
Str_CERT == <<"C", "E", "R", "T", "-">>
Str_issued == <<"I", "P", "-", "7">>
RouteIds == {Str_abc, Str_a1}

\* String.prototype.slice(0, end) on a string held as a sequence of characters
Slice0Exclusive(str, end) == SubSeq(str, 1, IF Len(str) < end - 1 THEN Len(str) ELSE end - 1)

Slice0(str, end) == SubSeq(str, 1, IF Len(str) < end THEN Len(str) ELSE end)

MonthShort ==
    <<"Jan", "Feb", "Mar", "Apr", "May", "Jun", "Jul", "Aug", "Sep", "Oct", "Nov", "Dec">>
TwoDigit(n) == IF n < 10 THEN "0" \o ToString(n) ELSE ToString(n)

\* Date.prototype.toLocaleDateString('en-US', {day: '2-digit', month: 'short',
\* year: 'numeric'}): the words of "Mon DD, YYYY"
toLocaleDateString(date) ==
    <<MonthShort[date.month], TwoDigit(date.day) \o ",", ToString(date.year)>>

TestDates == {[year |-> 2024, month |-> 3, day |-> 5]}

\* rows of test_attempts the attempt store can return for an id
Attempts(id) ==
    [id : {id},
     listening_score : RawScores, reading_score : RawScores,
     writing_score : RawScores, speaking_score : RawScores,
     test_date : TestDates]

AttemptErrors == {"permission denied", "not found", "fetch failed"}
Profiles == {None, Some("")} \cup {Some("Ada Obi")}
CachedNames == {None, Some("")} \cup {Some("A. Obi")}
Certs == {None, Some(<<>>), Some(Str_issued)}
Sessions == {None, Some("u1")}

\* a || b on optional strings: null, undefined and the empty string are falsy
\* (empty is "" for a name, <<>> for a string held as a sequence of characters)
OrElse(a, b, empty) == IF IsSome(a) /\ Get(a) # empty THEN a ELSE b

\* Math.round((listeningScore + readingScore + writingScore + speakingScore) / 4)
aggregate(listening, reading, writing, speaking) ==
    MathRound(listening + reading + writing + speaking, 4)

BuildCertificate(id, attempt, profile, cert, cached) ==
    LET listeningScore == MathRound(OrZero(attempt.listening_score), ScoreDenom)
        readingScore   == MathRound(OrZero(attempt.reading_score), ScoreDenom)
        writingScore   == MathRound(OrZero(attempt.writing_score), ScoreDenom)
        speakingScore  == MathRound(OrZero(attempt.speaking_score), ScoreDenom)
        totalScore     ==
            aggregate(listeningScore, readingScore, writingScore, speakingScore)
    IN  [candidateName |-> Get(OrElse(profile, OrElse(cached, Some("Candidate"), ""), "")),
         testDate      |-> toLocaleDateString(attempt.test_date),
         certificateId |-> Get(OrElse(cert, Some(Str_CERT \o Slice0(id, 8)), <<>>)),
         totalScore    |-> totalScore,
         cefr   |-> [overall   |-> scoreToCefr(totalScore),
                     listening |-> scoreToCefr(listeningScore),
                     reading   |-> scoreToCefr(readingScore),
                     writing   |-> scoreToCefr(writingScore),
                     speaking  |-> scoreToCefr(speakingScore)],
         scores |-> [listening |-> listeningScore,
                     reading   |-> readingScore,
                     writing   |-> writingScore,
                     speaking  |-> speakingScore]]

\* certificate data another page can hand over in location.state: the state
\* is cast to { certificateData?: CertificateData } and not checked, so its
\* levels are the ones the other page put there
NavCertificates ==
    {[candidateName |-> "Ada Obi",
      testDate      |-> <<"Mar", "05,", "2024">>,
      certificateId |-> Str_issued,
      totalScore    |-> 72,
      cefr   |-> [overall |-> o, listening |-> "C1", reading |-> "B2",
                  writing |-> "C1", speaking |-> "C1"],
      scores |-> [listening |-> 80, reading |-> 60, writing |-> 75, speaking |-> 72]]
     : o \in {"C1", "C2"}}

\* the one row per id the attempt store returns when the route changes
NavAttempts(id) ==
    [id : {id},
     listening_score : {Some(ScoreDenom * (50 + Len(id)))},
     reading_score : {Some(ScoreDenom * 55)},
     writing_score : {None}, speaking_score : {Some(ScoreDenom * 55)},
     test_date : TestDates]

\* the rows the attempt store returns for an id when the page is only mounted
MountAttempts(id) ==
    [id : {id},
     listening_score : RawScores, reading_score : RawScores,
     writing_score : {None}, speaking_score : {Some(ScoreDenom * 55)},
     test_date : TestDates]

Locations == [id : RouteIds, state : {None} \cup {Some(c) : c \in NavCertificates}]

\* a run of fetchCertificateData; id is the route id its closure holds
FetchStart(id) ==
    [pc |-> "getSession", id |-> id, session |-> None, attempt |-> None,
     profile |-> None, cert |-> None, outcome |-> "none"]

InitCertVars ==
    /\ loading = TRUE
    /\ certificateData = None
    /\ candidateNameItem \in CachedNames
    /\ location \in Locations
    /\ effectDue = TRUE
    /\ fetches = <<>>

\* useEffect body: certificate data of the navigation state is taken as it
\* is; otherwise fetchCertificateData is called and runs to its first await
CertEffect ==
    /\ effectDue
    /\ effectDue' = FALSE
    /\ IF IsSome(location.state)
       THEN /\ certificateData' = location.state
            /\ loading' = FALSE
            /\ UNCHANGED fetches
       ELSE /\ fetches' = Append(fetches, FetchStart(location.id))
            /\ UNCHANGED <<certificateData, loading>>
    /\ UNCHANGED <<location, candidateNameItem>>

\* the route id or the navigation state changes while the page is mounted:
\* the deps [id, navigate, location.state] make the effect run again
Navigate ==
    /\ ~effectDue
    /\ Len(fetches) <= MaxNavigations
    /\ \E l \in Locations \ {location} : location' = l
    /\ effectDue' = TRUE
    /\ UNCHANGED <<loading, certificateData, fetches, candidateNameItem>>

\* supabase.auth.getSession() settles
CertSessionSettlesKeepsLoading(f) ==
    /\ fetches[f].pc = "getSession"
    /\ \E s \in Sessions :
          IF s = None
          THEN fetches' = [fetches EXCEPT ![f].pc = "done", ![f].outcome = "noSession"]
          ELSE fetches' = [fetches EXCEPT ![f].pc = "attempt", ![f].session = s]
    /\ UNCHANGED <<loading, certificateData, location, effectDue, candidateNameItem>>

CertSessionSettles(f) ==
    /\ fetches[f].pc = "getSession"
    /\ \E s \in Sessions :
          IF s = None
          THEN /\ loading' = FALSE
               /\ fetches' = [fetches EXCEPT ![f].pc = "done", ![f].outcome = "noSession"]
          ELSE /\ fetches' = [fetches EXCEPT ![f].pc = "attempt", ![f].session = s]
               /\ UNCHANGED loading
    /\ UNCHANGED <<certificateData, location, effectDue, candidateNameItem>>

\* the test_attempts query settles: an error is thrown into catch / finally
CertAttemptSettles(f, attempts) ==
    /\ fetches[f].pc = "attempt"
    /\ \/ /\ \E e \in AttemptErrors :
                fetches' = [fetches EXCEPT ![f].pc = "done", ![f].outcome = "attemptError"]
          /\ loading' = FALSE
       \/ /\ \E a \in attempts :
                fetches' = [fetches EXCEPT ![f].pc = "profile", ![f].attempt = Some(a)]
          /\ UNCHANGED loading
    /\ UNCHANGED <<certificateData, location, effectDue, candidateNameItem>>

\* the profiles query settles (its error is not read)
CertProfileSettles(f) ==
    /\ fetches[f].pc = "profile"
    /\ \E p \in Profiles : fetches' = [fetches EXCEPT ![f].pc = "cert", ![f].profile = p]
    /\ UNCHANGED <<loading, certificateData, location, effectDue, candidateNameItem>>

\* the certificates query settles; the record is built and set, finally runs
CertCertSettles(f) ==
    /\ fetches[f].pc = "cert"
    /\ \E c \in Certs :
          /\ certificateData' =
                 Some(BuildCertificate(fetches[f].id, Get(fetches[f].attempt),
                                       fetches[f].profile, c, candidateNameItem))
          /\ fetches' = [fetches EXCEPT ![f].pc = "done", ![f].cert = c,
                                        ![f].outcome = "built"]
    /\ loading' = FALSE
    /\ UNCHANGED <<location, effectDue, candidateNameItem>>

\* what the component renders
View ==
    IF loading THEN "loading"
    ELSE IF certificateData = None THEN "not found"
    ELSE "certificate"

(***************************************************************************)
(* Payment modal and verify-payment handler                                *)
(***************************************************************************)
Users == {"u1"}
Amount == 250000

Str_pk_live == <<"p", "k", "_", "l", "i", "v", "e">>
Str_pk_test == <<"p", "k", "_", "t", "e", "s", "t">>

\* String.prototype.startsWith on strings held as sequences of characters
startsWith(str, prefix) ==
    /\ Len(str) >= Len(prefix)
    /\ SubSeq(str, 1, Len(prefix)) = prefix

\* Deno.env and import.meta.env: a variable is a string or unset
GoodEnv == [PAYSTACK_SECRET_KEY |-> Some("sk"), SUPABASE_URL |-> Some("url"),
            SUPABASE_SERVICE_ROLE_KEY |-> Some("key"),
            VITE_PAYSTACK_PUBLIC_KEY |-> Some(Str_pk_test \o <<"_", "9">>)]
EnvConfigs ==
    {GoodEnv,
     [GoodEnv EXCEPT !.PAYSTACK_SECRET_KEY = None,
                     !.VITE_PAYSTACK_PUBLIC_KEY = Some(Str_pk_live \o <<"_", "9">>)],
     [GoodEnv EXCEPT !.SUPABASE_URL = Some("")],
     [GoodEnv EXCEPT !.SUPABASE_SERVICE_ROLE_KEY = None],
     [GoodEnv EXCEPT !.VITE_PAYSTACK_PUBLIC_KEY = None],
     [GoodEnv EXCEPT !.VITE_PAYSTACK_PUBLIC_KEY = Some(<<"x">> \o Str_pk_test)]}

\* Deno.env.get(name) ?? ''
EnvOrEmpty(name) == IF IsSome(env[name]) THEN Get(env[name]) ELSE ""

\* paystackConfig.publicKey: import.meta.env.VITE_PAYSTACK_PUBLIC_KEY || ""
publicKey == Get(OrElse(env.VITE_PAYSTACK_PUBLIC_KEY, Some(<<>>), <<>>))

isAllowedKeyAnywhere ==
    \E k \in 0 .. Len(publicKey) :
        \/ startsWith(SubSeq(publicKey, k + 1, Len(publicKey)), Str_pk_live)
        \/ startsWith(SubSeq(publicKey, k + 1, Len(publicKey)), Str_pk_test)

isAllowedKey == startsWith(publicKey, Str_pk_live) \/ startsWith(publicKey, Str_pk_test)
canPay == publicKey # <<>> /\ isAllowedKey

\* what the modal renders under "Test Fee"
PayButton == IF canPay THEN "PaystackButton" ELSE "disabled button"

\* new Date().getTime().toString()
TimeReference == ToString(now)

\* request bodies the handler can receive from any caller: no reference, one
\* a render has produced by now, or "0", which no render produces (the clock
\* starts at 1)
RequestReferences == {None} \cup {Some(ToString(t)) : t \in 0 .. now}

\* answers of GET https://api.paystack.co/transaction/verify/:reference
GatewayJsons ==
    {[data |-> None],
     [data |-> Some([status |-> Some("success"), amount |-> Some(Amount)])],
     [data |-> Some([status |-> Some("success"), amount |-> Some(100)])],
     [data |-> Some([status |-> Some("abandoned"), amount |-> Some(Amount)])]}
GatewayAnswers ==
    {[kind |-> "unreachable"]}
    \cup {[kind |-> "http", ok |-> FALSE, json |-> [data |-> None]]}
    \cup {[kind |-> "http", ok |-> TRUE, json |-> j] : j \in GatewayJsons}

\* verifyJson?.data?.status and verifyJson?.data?.amount
JsonStatus(json) == IF IsSome(json.data) THEN Get(json.data).status ELSE None
JsonAmount(json) == IF IsSome(json.data) THEN Get(json.data).amount ELSE None

\* a mounted modal; reference is paystackConfig.reference of the latest render
ModalRendered(reference) ==
    [pc |-> "idle", reference |-> reference, checkout |-> None, onSuccess |-> FALSE]
NoItems == [hasPaid |-> None, paymentReference |-> None]

\* the Response of a run of the handler for a request with this reference
NoResponse ==
    [reference |-> None, code |-> 0, text |-> "", status |-> None, amount |-> None]
Response(reference, code, text) ==
    [reference |-> reference, code |-> code, text |-> text, status |-> None, amount |-> None]

InitPayVars ==
    /\ ledger = <<>>
    /\ calls = EmptyBag
    /\ response = NoResponse
    /\ started = 0
    /\ overwritten = {}
    /\ now = 1
    /\ modal = [u \in Users |-> ModalRendered(TimeReference)]
    /\ localStore = [u \in Users |-> NoItems]
    /\ env \in EnvConfigs

\* ---- PaymentModal ----

\* the component renders again (props or state changed, or it is opened
\* again); the clock has not moved since the last render, or it has
ModalRender(u) ==
    /\ modal[u].pc \in {"idle", "done"}
    /\ \E t \in {now, now + 1} :
          /\ t <= MaxTime
          /\ now' = t
    /\ modal' = [modal EXCEPT ![u] = ModalRendered(TimeReference')]
    /\ response' = NoResponse
    /\ overwritten' = {}
    /\ UNCHANGED <<ledger, calls, started, localStore, env>>

\* the reference object the gateway hands to onSuccess; componentProps carries
\* no reference, so the checkout runs under a reference of the gateway's own
CheckoutReferences == {"T481"}

\* the user presses the PaystackButton, which is rendered only when canPay
PayClick(u) ==
    /\ modal[u].pc \in {"idle", "done"}
    /\ canPay
    /\ \E g \in CheckoutReferences :
          modal' = [modal EXCEPT ![u].pc = "checkout", ![u].onSuccess = FALSE,
                                 ![u].checkout = Some([reference |-> g, status |-> "success"])]
    /\ response' = NoResponse
    /\ overwritten' = {}
    /\ UNCHANGED <<ledger, calls, started, localStore, now, env>>

\* handlePaymentClose: the checkout is closed without a payment
handlePaymentClose(u) ==
    /\ modal[u].pc = "checkout"
    /\ modal' = [modal EXCEPT ![u].pc = "idle", ![u].checkout = None]
    /\ response' = NoResponse
    /\ overwritten' = {}
    /\ UNCHANGED <<ledger, calls, started, localStore, now, env>>

\* the row handlePaymentSuccess inserts
InsertedRowVerified(u, reference, checkout) ==
    [user_id |-> u, amount |-> Amount, purpose |-> "reattempt",
     reference |-> reference, status |-> "verified", paystack_response |-> checkout]

InsertedRow(u, reference, checkout) ==
    [user_id |-> u, amount |-> Amount, purpose |-> "reattempt",
     reference |-> reference, status |-> "success", paystack_response |-> checkout]

\* the second try block of handlePaymentSuccess, the toast and onSuccess();
\* stored tells whether localStorage.setItem succeeded (the storage is taken
\* to be available, so the callers pass TRUE)
FinishPayment(u, stored) ==
    /\ modal' = [modal EXCEPT ![u].pc = "done", ![u].onSuccess = TRUE, ![u].checkout = None]
    /\ localStore' =
           IF stored
           THEN [localStore EXCEPT ![u] = [hasPaid |-> Some("true"),
                                           paymentReference |-> Some(modal[u].reference)]]
           ELSE localStore

\* the gateway reports the payment as completed: handlePaymentSuccess runs.
\* With a session user id it awaits the insert; without one, or when
\* getSession throws, the first try block ends and the rest runs
handlePaymentSuccess(u) ==
    /\ modal[u].pc = "checkout"
    /\ \/ /\ modal' = [modal EXCEPT ![u].pc = "insert"]
          /\ UNCHANGED localStore
       \/ FinishPayment(u, TRUE)
    /\ response' = NoResponse
    /\ overwritten' = {}
    /\ UNCHANGED <<ledger, calls, started, now, env>>

\* the insert settles (its error is returned, not thrown, and not read) and
\* verify-payment is invoked
ModalInsertSettles(u) ==
    /\ modal[u].pc = "insert"
    /\ \/ /\ Len(ledger) < MaxRows
          /\ ledger' = Append(ledger, InsertedRow(u, modal[u].reference, Get(modal[u].checkout)))
       \/ UNCHANGED ledger
    /\ modal' = [modal EXCEPT ![u].pc = "invoke"]
    /\ response' = NoResponse
    /\ overwritten' = {}
    /\ UNCHANGED <<calls, started, localStore, now, env>>

\* ---- verify-payment handler ----

\* if (!secret || !supabaseUrl || !serviceKey)
MissingEnvSecretOnly == EnvOrEmpty("PAYSTACK_SECRET_KEY") = ""

MissingEnv ==
    \/ EnvOrEmpty("PAYSTACK_SECRET_KEY") = ""
    \/ EnvOrEmpty("SUPABASE_URL") = ""
    \/ EnvOrEmpty("SUPABASE_SERVICE_ROLE_KEY") = ""

\* if (!reference)
MissingReference(reference) == ~IsSome(reference) \/ reference = Some("")

\* a run of the handler awaiting the gateway; caller is the user whose modal
\* invoked it, "" for any other caller
NewCall(reference, caller) ==
    [pc |-> "verify", reference |-> reference, caller |-> caller, ok |-> None,
     json |-> [data |-> None]]
Started(call) == SetToBag({call})

\* the handler from its first line to its first await on the gateway
StartCall(reference, caller) ==
    /\ started < MaxCalls
    /\ started' = started + 1
    /\ overwritten' = {}
    /\ IF MissingEnv
       THEN /\ response' = Response(reference, 500, "missing env")
            /\ UNCHANGED calls
       ELSE IF MissingReference(reference)
       THEN /\ response' = Response(reference, 400, "missing reference")
            /\ UNCHANGED calls
       ELSE /\ calls' = calls (+) Started(NewCall(reference, caller))
            /\ response' = NoResponse

\* a request reaches the handler from any caller
HandlerRequest ==
    /\ \E reference \in RequestReferences : StartCall(reference, "")
    /\ UNCHANGED <<ledger, modal, localStore, now, env>>

\* supabase.functions.invoke('verify-payment', ...) of handlePaymentSuccess
\* reaches the handler
ModalInvoke(u) ==
    /\ modal[u].pc = "invoke"
    /\ StartCall(Some(modal[u].reference), u)
    /\ modal' = [modal EXCEPT ![u].pc = "awaitVerify"]
    /\ UNCHANGED <<ledger, localStore, now, env>>

\* the invocation settles: the handler has answered, or the request never
\* reached it; its result is not read
ModalVerifySettles(u) ==
    /\ \/ modal[u].pc = "invoke"
       \/ modal[u].pc = "awaitVerify" /\ \A c \in BagToSet(calls) : c.caller # u
    /\ FinishPayment(u, TRUE)
    /\ response' = NoResponse
    /\ overwritten' = {}
    /\ UNCHANGED <<ledger, calls, started, now, env>>

\* the handler goes on to the ledger update only after an ok answer
ProceedsAnyHttp(answer) == answer.kind = "http"

Proceeds(answer) == answer.kind = "http" /\ answer.ok

\* status === 'success' ? 'verified' : 'failed'
StoredStatusAnyPresent(status) == IF IsSome(status) THEN "verified" ELSE "failed"

StoredStatus(status) == IF status = Some("success") THEN "verified" ELSE "failed"

\* .eq('reference', reference): the rows an update reaches
Matching(rows, reference) == {i \in DOMAIN rows : rows[i].reference = reference}

\* .update({status, paystack_response}).eq('reference', reference)
UpdateRowsUpsert(rows, reference, status, json) ==
    IF \E i \in DOMAIN rows : rows[i].reference = reference
    THEN [i \in DOMAIN rows |->
             IF rows[i].reference = reference
             THEN [rows[i] EXCEPT !.status = status, !.paystack_response = json]
             ELSE rows[i]]
    ELSE Append(rows, [user_id |-> "", amount |-> 0, purpose |-> "", reference |-> reference,
                       status |-> status, paystack_response |-> json])

UpdateRowsStatusOnly(rows, reference, status, json) ==
    [i \in DOMAIN rows |->
        IF rows[i].reference = reference
        THEN [rows[i] EXCEPT !.status = status]
        ELSE rows[i]]

UpdateRowsEveryRow(rows, reference, status, json) ==
    [i \in DOMAIN rows |-> [rows[i] EXCEPT !.status = status, !.paystack_response = json]]

UpdateRowsRejectRepeat(rows, reference, status, json) ==
    [i \in DOMAIN rows |->
        IF rows[i].reference = reference
        THEN [rows[i] EXCEPT
                 !.status = IF rows[i].status \in {"verified", "failed"} THEN "failed" ELSE status,
                 !.paystack_response = json]
        ELSE rows[i]]

UpdateRowsKeepFirstResponse(rows, reference, status, json) ==
    [i \in DOMAIN rows |->
        IF rows[i].reference = reference
        THEN [rows[i] EXCEPT
                 !.status = status,
                 !.paystack_response =
                     IF rows[i].status \in {"verified", "failed"}
                     THEN rows[i].paystack_response ELSE json]
        ELSE rows[i]]

UpdateRows(rows, reference, status, json) ==
    [i \in DOMAIN rows |->
        IF rows[i].reference = reference
        THEN [rows[i] EXCEPT !.status = status, !.paystack_response = json]
        ELSE rows[i]]

\* the gateway fetch of run c settles: fetch throws (the run ends without a
\* Response of its own, code 0), or the answer is read; ok is verifyRes.ok
HandlerVerifySettles(c) ==
    /\ c.pc = "verify"
    /\ \E answer \in GatewayAnswers :
          IF answer.kind # "http"
          THEN /\ calls' = calls (-) Started(c)
               /\ response' = Response(c.reference, 0, answer.kind)
          ELSE IF Proceeds(answer)
          THEN /\ calls' = (calls (-) Started(c))
                            (+) Started([c EXCEPT !.pc = "update", !.ok = Some(answer.ok),
                                                  !.json = answer.json])
               /\ response' = NoResponse
          ELSE /\ calls' = calls (-) Started(c)
               /\ response' = Response(c.reference, 502, "verifyJson")
    /\ overwritten' = {}
    /\ UNCHANGED <<ledger, started, modal, localStore, now, env>>

\* the ledger update of run c settles: with an error, or with the rows written
HandlerUpdateSettles(c) ==
    /\ c.pc = "update"
    /\ calls' = calls (-) Started(c)
    /\ \/ /\ response' = Response(c.reference, 500, "update.error.message")
          /\ overwritten' = {}
          /\ UNCHANGED ledger
       \/ /\ ledger' = UpdateRows(ledger, Get(c.reference),
                                  StoredStatus(JsonStatus(c.json)), c.json)
          /\ overwritten' = {ledger[i].status : i \in Matching(ledger, Get(c.reference))}
          /\ response' = [reference |-> c.reference, code |-> 200, text |-> "",
                          status |-> JsonStatus(c.json), amount |-> JsonAmount(c.json)]
    /\ UNCHANGED <<started, modal, localStore, now, env>>

(***************************************************************************)
(* Award date: formatAwardDate                                             *)
(*                                                                         *)
(* A date string is held as the words split(' ') gives.                    *)
(***************************************************************************)
MonthFull ==
    <<"January", "February", "March", "April", "May", "June", "July", "August",
      "September", "October", "November", "December">>

\* the words of new Date(): getDate(), the short month and getFullYear()
TodayParts == <<"6", "Nov", "2026">>

\* parts[k] || fallback: a missing or empty word is falsy
PartOr(parts, k, fallback) ==
    IF k \in DOMAIN parts /\ parts[k] # "" THEN parts[k] ELSE fallback

\* parseInt(day, 10) of a word: the number of a decimal numeral of one or two
\* digits, None (NaN) for a word that does not start with a digit
parseInt(word) ==
    LET Numerals(n) == {ToString(n), "0" \o ToString(n)}
    IN  IF \E n \in 0 .. 99 : word \in Numerals(n)
        THEN Some(CHOOSE n \in 0 .. 99 : word \in Numerals(n))
        ELSE None

\* the suffix chosen for d; every comparison with NaN is false
ordinalSuffixNoTeens(d) ==
    IF d = None THEN "th"
    ELSE IF Get(d) % 10 = 1 THEN "st"
    ELSE IF Get(d) % 10 = 2 THEN "nd"
    ELSE IF Get(d) % 10 = 3 THEN "rd"
    ELSE "th"

ordinalSuffix(d) ==
    IF d = None THEN "th"
    ELSE IF Get(d) % 10 = 1 /\ Get(d) # 11 THEN "st"
    ELSE IF Get(d) % 10 = 2 /\ Get(d) # 12 THEN "nd"
    ELSE IF Get(d) % 10 = 3 /\ Get(d) # 13 THEN "rd"
    ELSE "th"

\* map[monthShort] || monthShort
monthFullOf(monthShort) ==
    IF \E k \in DOMAIN MonthShort : MonthShort[k] = monthShort
    THEN MonthFull[CHOOSE k \in DOMAIN MonthShort : MonthShort[k] = monthShort]
    ELSE monthShort

formatAwardDate(parts) ==
    LET day        == PartOr(parts, 1, TodayParts[1])
        monthShort == PartOr(parts, 2, TodayParts[2])
        year       == PartOr(parts, 3, TodayParts[3])
        d          == parseInt(day)
    IN  (IF d = None THEN "NaN" ELSE ToString(Get(d)))
            \o ordinalSuffix(d) \o " day of " \o monthFullOf(monthShort) \o ", " \o year

\* the day of a date string, with and without a leading zero
DayWords == {ToString(n) : n \in 1 .. 31} \cup {TwoDigit(n) : n \in 1 .. 31}

\* date strings handed to formatAwardDate: "DD Mon YYYY", the empty string,
\* and the test dates as the Builder formats them
AwardInputs ==
    {<<day, MonthShort[k], "2024">> : day \in DayWords, k \in DOMAIN MonthShort}
    \cup {<<"">>}
    \cup {toLocaleDateString(date) : date \in TestDates}

InitAwardVars ==
    /\ dateStr \in AwardInputs
    /\ awardDate = None

FormatAward ==
    /\ awardDate = None
    /\ awardDate' = Some(formatAwardDate(dateStr))
    /\ UNCHANGED dateStr

(***************************************************************************)
(* Specifications                                                          *)
(***************************************************************************)
InitClassifyVars ==
    /\ scoreA \in ClassifyDomain
    /\ scoreB \in ClassifyDomain
    /\ cefrA = None
    /\ cefrB = None
    /\ labelA = None
    /\ labelB = None

IdleClassifyVars ==
    /\ scoreA = 0 /\ scoreB = 0
    /\ cefrA = None /\ cefrB = None
    /\ labelA = None /\ labelB = None
IdleCertVars ==
    /\ loading = TRUE
    /\ certificateData = None
    /\ candidateNameItem = None
    /\ location = [id |-> Str_a1, state |-> None]
    /\ effectDue = TRUE
    /\ fetches = <<>>
IdlePayVars ==
    /\ ledger = <<>>
    /\ calls = EmptyBag
    /\ response = NoResponse
    /\ started = 0
    /\ overwritten = {}
    /\ now = 1
    /\ modal = [u \in Users |-> ModalRendered(TimeReference)]
    /\ localStore = [u \in Users |-> NoItems]
    /\ env = GoodEnv

IdleAwardVars == dateStr = <<"">> /\ awardDate = None

InitClassify == InitClassifyVars /\ IdleCertVars /\ IdlePayVars /\ IdleAwardVars
NextClassify ==
    \/ ClassifyA /\ UNCHANGED certVars /\ UNCHANGED payVars /\ UNCHANGED awardVars
    \/ ClassifyB /\ UNCHANGED certVars /\ UNCHANGED payVars /\ UNCHANGED awardVars
SpecClassify == InitClassify /\ [][NextClassify]_vars

InitCert == IdleClassifyVars /\ InitCertVars /\ IdlePayVars /\ IdleAwardVars
NextCert ==
    \/ CertEffect /\ UNCHANGED classifyVars /\ UNCHANGED payVars /\ UNCHANGED awardVars
    \/ \E f \in DOMAIN fetches :
          /\ \/ CertSessionSettles(f)
             \/ CertAttemptSettles(f, Attempts(fetches[f].id))
             \/ CertProfileSettles(f)
             \/ CertCertSettles(f)
          /\ UNCHANGED classifyVars /\ UNCHANGED payVars /\ UNCHANGED awardVars
SpecCert == InitCert /\ [][NextCert]_vars

NextCertNav ==
    \/ CertEffect /\ UNCHANGED classifyVars /\ UNCHANGED payVars /\ UNCHANGED awardVars
    \/ Navigate /\ UNCHANGED classifyVars /\ UNCHANGED payVars /\ UNCHANGED awardVars
    \/ \E f \in DOMAIN fetches :
          /\ \/ CertSessionSettles(f)
             \/ CertAttemptSettles(f, NavAttempts(fetches[f].id))
             \/ CertProfileSettles(f)
             \/ CertCertSettles(f)
          /\ UNCHANGED classifyVars /\ UNCHANGED payVars /\ UNCHANGED awardVars
SpecCertNav == InitCert /\ [][NextCertNav]_vars

\* a step of the certificate page: nothing else moves
CertStep(A) == A /\ UNCHANGED classifyVars /\ UNCHANGED payVars /\ UNCHANGED awardVars

\* the page from its mount on, the route staying as it is
NextCertMount ==
    \/ CertStep(CertEffect)
    \/ \E f \in DOMAIN fetches :
          \/ CertStep(CertSessionSettles(f))
          \/ CertStep(CertAttemptSettles(f, MountAttempts(fetches[f].id)))
          \/ CertStep(CertProfileSettles(f))
          \/ CertStep(CertCertSettles(f))

\* the effect that is due runs and every store call settles
CertFairness ==
    /\ WF_vars(CertStep(CertEffect))
    /\ WF_vars(CertStep(1 \in DOMAIN fetches /\ CertSessionSettles(1)))
    /\ WF_vars(CertStep(1 \in DOMAIN fetches
                          /\ CertAttemptSettles(1, MountAttempts(fetches[1].id))))
    /\ WF_vars(CertStep(1 \in DOMAIN fetches /\ CertProfileSettles(1)))
    /\ WF_vars(CertStep(1 \in DOMAIN fetches /\ CertCertSettles(1)))
SpecCertLive == InitCert /\ [][NextCertMount]_vars /\ CertFairness

InitAward == IdleClassifyVars /\ IdleCertVars /\ IdlePayVars /\ InitAwardVars
NextAward ==
    FormatAward /\ UNCHANGED classifyVars /\ UNCHANGED certVars /\ UNCHANGED payVars
SpecAward == InitAward /\ [][NextAward]_vars

InitPay == IdleClassifyVars /\ IdleCertVars /\ InitPayVars /\ IdleAwardVars
NextPay ==
    \/ HandlerRequest /\ UNCHANGED classifyVars /\ UNCHANGED certVars /\ UNCHANGED awardVars
    \/ \E u \in Users :
          /\ \/ ModalRender(u)
             \/ PayClick(u)
             \/ handlePaymentClose(u)
             \/ handlePaymentSuccess(u)
             \/ ModalInsertSettles(u)
             \/ ModalInvoke(u)
             \/ ModalVerifySettles(u)
          /\ UNCHANGED classifyVars /\ UNCHANGED certVars /\ UNCHANGED awardVars
    \/ \E c \in BagToSet(calls) :
          /\ HandlerVerifySettles(c) \/ HandlerUpdateSettles(c)
          /\ UNCHANGED classifyVars /\ UNCHANGED certVars /\ UNCHANGED awardVars
SpecPay == InitPay /\ [][NextPay]_vars

(***************************************************************************)
(* Properties                                                              *)
(***************************************************************************)
Levels == <<"A0", "A1", "A2", "B1", "B2", "C1", "C2">>
Rank(level) == CHOOSE k \in DOMAIN Levels : Levels[k] = level

\* the threshold table of the Level Classifier, by score range
InTable(score, level) ==
    /\ (score >= 86) => level = "C2"
    /\ (score \in 71 .. 85) => level = "C1"
    /\ (score \in 51 .. 70) => level = "B2"
    /\ (score \in 41 .. 50) => level = "B1"
    /\ (score \in 21 .. 40) => level = "A2"
    /\ (score \in 11 .. 20) => level = "A1"
    /\ (score <= 10) => level = "A0"

\* C1: every integer score, negative and above 100 included, is classified as
\* the threshold table says: >= 86 C2, 71..85 C1, 51..70 B2, 41..50 B1,
\* 21..40 A2, 11..20 A1, <= 10 A0.
C1_ClassifyMatchesTable ==
    /\ IsSome(cefrA) => InTable(scoreA, Get(cefrA))
    /\ IsSome(cefrB) => InTable(scoreB, Get(cefrB))

C1_Witness ==
    /\ scoreA = 0 - 5 /\ cefrA = Some("A0")
    /\ scoreB = MaxScore + 1 /\ cefrB = Some("C2")

\* C2: scoreToCefr is monotonic: for scores a <= b the band of a is never
\* higher than the band of b (A0 < A1 < A2 < B1 < B2 < C1 < C2).
C2_ClassifyMonotonic ==
    (IsSome(cefrA) /\ IsSome(cefrB) /\ scoreA <= scoreB)
        => Rank(Get(cefrA)) <= Rank(Get(cefrB))

C2_Witness ==
    /\ scoreA = 50 /\ scoreB = 51
    /\ IsSome(cefrA) /\ IsSome(cefrB)
    /\ Rank(Get(cefrA)) < Rank(Get(cefrB))

InRange(scores) ==
    \A k \in {"listening", "reading", "writing", "speaking"} : scores[k] \in 0 .. MaxScore
SumOf(scores) == scores.listening + scores.reading + scores.writing + scores.speaking
Built(f) ==
    /\ f \in DOMAIN fetches
    /\ fetches[f].outcome = "built"
    /\ IsSome(certificateData)

\* C3: for four integer scores in 0..100 the overall score of a built record
\* is their mean rounded to the nearest integer, an exact half going up:
\* floor((sum + 2) / 4); aggregate({70,80,90,60}) = 75, aggregate({0,0,0,1}) = 0.
C3_AggregateRoundsHalfUp ==
    /\ (Built(1) /\ InRange(Get(certificateData).scores)) =>
           LET sum   == SumOf(Get(certificateData).scores)
               total == Get(certificateData).totalScore
           IN  /\ total = (sum + 2) \div 4
               /\ 4 * total - sum \in (0 - 1) .. 2
    /\ aggregate(70, 80, 90, 60) = 75
    /\ aggregate(0, 0, 0, 1) = 0
    /\ aggregate(0, 0, 1, 1) = 1

C3_Witness ==
    /\ Built(1)
    /\ InRange(Get(certificateData).scores)
    /\ SumOf(Get(certificateData).scores) % 4 = 2
    /\ 4 * Get(certificateData).totalScore = SumOf(Get(certificateData).scores) + 2

SkillColumn ==
    [listening |-> "listening_score", reading |-> "reading_score",
     writing |-> "writing_score", speaking |-> "speaking_score"]

NullThenThree55(attempt) ==
    /\ attempt.listening_score = None
    /\ attempt.reading_score = Some(55 * ScoreDenom)
    /\ attempt.writing_score = Some(55 * ScoreDenom)
    /\ attempt.speaking_score = Some(55 * ScoreDenom)

\* the record run f has just built has 0 for every missing score, the overall
\* score of its scores and the level of its overall score
MissingScoresAreZero(f) ==
    /\ Built(f)
    /\ LET attempt == Get(fetches[f].attempt)
           record  == Get(certificateData)
       IN  /\ \A k \in DOMAIN SkillColumn :
                  attempt[SkillColumn[k]] = None => record.scores[k] = 0
           /\ record.totalScore = (SumOf(record.scores) + 2) \div 4
           /\ InTable(record.totalScore, record.cefr.overall)
           /\ NullThenThree55(attempt)
              => (/\ record.scores.listening = 0
                  /\ record.totalScore = 41
                  /\ record.cefr.overall = "B1")

\* C4: whichever skill scores of the attempt are null, the Builder does not
\* fail: once the last query settles the record is built, every missing score
\* is 0 in it, the overall score is the aggregate with those zeros and the
\* overall level is the level of the overall score; {null, 55, 55, 55} gives
\* listening 0, overall 41, level B1.
C4_MissingScoreIsZero ==
    [][\A f \in DOMAIN fetches :
          (fetches[f].pc = "cert" /\ fetches'[f].pc # "cert") => MissingScoresAreZero(f)']_vars

C4_Witness ==
    /\ Built(1)
    /\ NullThenThree55(Get(fetches[1].attempt))
    /\ Get(certificateData).scores.listening = 0
    /\ Get(certificateData).totalScore = 41

\* the run of fetchCertificateData for the current route, when there is one
CurrentFetch == Len(fetches)
LookupFailed ==
    /\ ~effectDue
    /\ location.state = None
    /\ fetches # <<>>
    /\ fetches[CurrentFetch].outcome = "attemptError"

\* C5: when the attempt lookup fails, no certificate record is set and, with
\* loading over, the page shows the not-found state, never a certificate.
C5_FailedLookupShowsNotFound ==
    LookupFailed => (certificateData = None /\ ~loading /\ View = "not found")

\* run c of the handler takes a step; it returns when it leaves the bag
Steps(c) == CopiesIn(c, calls') < CopiesIn(c, calls)
Returns(c) == Steps(c) /\ BagCardinality(calls') < BagCardinality(calls)
RowsOf(reference) == {i \in DOMAIN ledger : ledger[i].reference = reference}

\* C6: a reconcile that writes the ledger stores verified when the status the
\* gateway reported is "success" and failed for every other status, an
\* absent status included.
C6_StatusFromGateway ==
    [][\A c \in BagToSet(calls) :
          (c.pc = "update" /\ Returns(c) /\ response'.code = 200) =>
              \A i \in RowsOf(Get(c.reference)) :
                  ledger'[i].status =
                      IF JsonStatus(c.json) = Some("success") THEN "verified" ELSE "failed"]_vars

C6_Witness ==
    /\ response.code = 200
    /\ response.status = None
    /\ \E i \in RowsOf(Get(response.reference)) :
          /\ ledger[i].status = "failed"
          /\ ledger[i].paystack_response = [data |-> None]

\* C7: the payment flow sets the has-paid flag and calls onSuccess only if the
\* ledger holds a transaction with purpose "reattempt" and status verified.
C7_AttemptOnlyIfVerified ==
    \A u \in Users :
        (localStore[u].hasPaid = Some("true") \/ modal[u].onSuccess) =>
            \E i \in DOMAIN ledger :
                ledger[i].purpose = "reattempt" /\ ledger[i].status = "verified"

\* C8: the ledger row of a payment is inserted, with status pending, before
\* the gateway reports the payment as completed: when the gateway reports
\* completion, a pending row with the payment's reference is in the ledger.
C8_PendingRowBeforeGateway ==
    [][\A u \in Users :
          (modal[u].pc = "checkout" /\ modal'[u].pc \in {"insert", "done"}) =>
              \E i \in RowsOf(modal[u].reference) : ledger[i].status = "pending"]_vars

\* C9: when the gateway is unreachable or answers with a non-success HTTP
\* status, reconcile ends with an error and without a ledger write: every row
\* keeps the status it had.  Only a run whose gateway answer was ok goes on
\* to the update.
C9_GatewayErrorWritesNothing ==
    [][\A c \in BagToSet(calls) :
          (c.pc = "verify" /\ Steps(c)) =>
              /\ ledger' = ledger
              /\ IF Returns(c)
                 THEN response'.code \in {0, 502} /\ response'.reference = c.reference
                 ELSE \A d \in BagToSet(calls') :
                         CopiesIn(d, calls') > CopiesIn(d, calls) =>
                             d.pc = "update" /\ d.ok = Some(TRUE)]_vars

C9_Witness ==
    /\ response.code = 502
    /\ \E i \in RowsOf(Get(response.reference)) : ledger[i].status = "success"

\* C10: reconcile on a reference without a row in the ledger leaves the
\* ledger as it is: no row changes and none is created.
C10_UnknownReferenceNoMutation ==
    [][\A c \in BagToSet(calls) :
          (Steps(c) /\ RowsOf(Get(c.reference)) = {}) => ledger' = ledger]_vars

C10_Witness ==
    /\ response.code = 200
    /\ RowsOf(Get(response.reference)) = {}
    /\ ledger # <<>>

\* C11: a reconcile on a reference without a row in the ledger returns an
\* error; it never returns the success result that carries a status and an
\* amount.
C11_UnknownReferenceIsAnError ==
    [][\A c \in BagToSet(calls) :
          (Returns(c) /\ RowsOf(Get(c.reference)) = {}) =>
              /\ response'.code # 200
              /\ response'.status = None
              /\ response'.amount = None]_vars

\* C12: reconcile is idempotent: a reconcile that finds the row already
\* verified or failed by the very gateway answer it brings leaves the row as
\* it is; with the gateway reporting "success" again a verified row stays
\* verified, with any other answer again a failed row stays failed.
C12_ReconcileIdempotent ==
    [][\A c \in BagToSet(calls) :
          (c.pc = "update" /\ Returns(c) /\ response'.code = 200) =>
              \A i \in RowsOf(Get(c.reference)) :
                  /\ (ledger[i].status \in {"verified", "failed"}
                        /\ ledger[i].paystack_response = c.json) => ledger'[i] = ledger[i]
                  /\ (ledger[i].status = "verified" /\ JsonStatus(c.json) = Some("success"))
                        => ledger'[i].status = "verified"
                  /\ (ledger[i].status = "failed" /\ JsonStatus(c.json) # Some("success"))
                        => ledger'[i].status = "failed"]_vars

C12_Witness ==
    /\ started = 2
    /\ response.code = 200
    /\ response.status = Some("success")
    /\ overwritten = {"verified"}
    /\ \E i \in RowsOf(Get(response.reference)) :
          /\ ledger[i].status = "verified"
          /\ JsonStatus(ledger[i].paystack_response) = Some("success")

\* C13: every payment gets a reference of its own, so no two rows of the
\* ledger carry the same reference.
C13_ReferencesUnique ==
    \A i, j \in DOMAIN ledger : ledger[i].reference = ledger[j].reference => i = j

\* the objects the checkout hands to handlePaymentSuccess
CheckoutObjects == {[reference |-> g, status |-> "success"] : g \in CheckoutReferences}

\* C14: whatever the interleaving of the reconcile calls for a reference, a
\* row is either as it was inserted or holds the status and the gateway
\* answer of one and the same call: verified exactly when the stored answer
\* reports "success", failed otherwise.
C14_RowWrittenByOneCall ==
    \A i \in DOMAIN ledger :
        IF ledger[i].status = "success"
        THEN ledger[i].paystack_response \in CheckoutObjects
        ELSE /\ ledger[i].status \in {"verified", "failed"}
             /\ ledger[i].paystack_response \in GatewayJsons
             /\ ledger[i].status = "verified"
                    <=> JsonStatus(ledger[i].paystack_response) = Some("success")

C14_Witness ==
    /\ response.code = 200
    /\ overwritten # {}
    /\ \E c \in BagToSet(calls) :
          /\ c.pc = "update"
          /\ c.reference = response.reference
          /\ JsonStatus(c.json) # response.status

\* C15: when the insert of handlePaymentSuccess did not persist a row, the
\* reconcile the modal invokes for that reference fails on the ledger lookup
\* and does not report a gateway status and amount.
C15_NoReconcileBeforeInsert ==
    [][\A c \in BagToSet(calls) :
          (c.caller \in Users /\ c.pc = "update" /\ Returns(c)
             /\ RowsOf(Get(c.reference)) = {}) =>
              response'.code \notin {200}]_vars

\* C16: with the gateway secret, the ledger URL or the ledger service key
\* missing, every request to the handler is answered by the configuration
\* error (500 "missing env") before any gateway request and any ledger
\* write: no run is in flight and the ledger is unchanged.
RequiredConfig == {"PAYSTACK_SECRET_KEY", "SUPABASE_URL", "SUPABASE_SERVICE_ROLE_KEY"}
ConfigMissing == \E name \in RequiredConfig : env[name] = None

C16_MissingEnvFailsFast ==
    [][(ConfigMissing /\ started' # started) =>
          /\ response'.code = 500
          /\ response'.text = "missing env"
          /\ calls = EmptyBag
          /\ calls' = EmptyBag
          /\ ledger' = ledger]_vars

C16_Witness ==
    /\ env.PAYSTACK_SECRET_KEY # None
    /\ ConfigMissing
    /\ response.code = 500
    /\ response.text = "missing env"
    /\ ledger # <<>>

\* the step changes or removes a row, or writes a verified or failed status
TouchesTransaction ==
    \/ \E i \in DOMAIN ledger : i \notin DOMAIN ledger' \/ ledger'[i] # ledger[i]
    \/ \E i \in DOMAIN ledger' \ DOMAIN ledger : ledger'[i].status \in {"verified", "failed"}

\* C17: only the update of a reconcile changes an existing row or writes a
\* verified or failed status: no step of the payment modal (success
\* callback, close) changes or deletes a row, and the row it inserts is
\* neither verified nor failed.
C17_OnlyReconcileChangesStatus ==
    [][TouchesTransaction =>
          /\ modal' = modal
          /\ \E c \in BagToSet(calls) : c.pc = "update" /\ Returns(c)]_vars

C17_Witness ==
    /\ Len(ledger) = 2
    /\ ledger[1].status = "verified"
    /\ ledger[2].status = "success"
    /\ \E u \in Users : modal[u].pc = "invoke" /\ ledger[2].user_id = u

\* C18: every skill score and the overall score of a built record is an
\* integer in 0..100: an attempt score below 0 or above 100 is clamped (or
\* the attempt rejected), never copied into the record.
C18_ScoresWithinRange ==
    Built(1) =>
        /\ InRange(Get(certificateData).scores)
        /\ Get(certificateData).totalScore \in 0 .. MaxScore

\* the levels and the overall score of a record are the ones its scores give
Derived(record) ==
    /\ \A k \in DOMAIN SkillColumn : InTable(record.scores[k], record.cefr[k])
    /\ record.totalScore = (SumOf(record.scores) + 2) \div 4
    /\ InTable(record.totalScore, record.cefr.overall)

\* C19: whenever a certificate is displayed, built from a fetched attempt or
\* taken from the navigation state, each skill level is the level of the
\* displayed score of that skill, the overall score is the aggregate of the
\* four displayed scores and the overall level is the level of the overall
\* score.
C19_LevelsDerivedFromScores ==
    View = "certificate" => Derived(Get(certificateData))

\* the first n characters of a string, the whole string when it is shorter
FirstChars(str, n) == [i \in 1 .. (IF Len(str) < n THEN Len(str) ELSE n) |-> str[i]]
Str_CERT_abc12345 == <<"C", "E", "R", "T", "-", "a", "b", "c", "1", "2", "3", "4", "5">>

C21_NameChain ==
    Built(1) =>
        LET profile == fetches[1].profile
        IN  Get(certificateData).candidateName =
                IF IsSome(profile) THEN Get(profile)
                ELSE IF IsSome(candidateNameItem) THEN Get(candidateNameItem)
                ELSE "Candidate"

\* every run of fetchCertificateData has returned
AllFetchesDone == \A f \in DOMAIN fetches : fetches[f].pc = "done"

\* the record is one the Builder derives from the attempt with this id
DerivedFromAttempt(record, id) ==
    \E a \in NavAttempts(id), p \in Profiles, c \in Certs :
        record = BuildCertificate(id, a, p, c, candidateNameItem)

\* C26: once loading has ended and every fetch has completed, in whichever
\* order, or the later one has failed, the page does not show for the current
\* route id the certificate derived from the attempt of another, earlier
\* route id.
C26_ShowsCurrentRoute ==
    (~effectDue /\ AllFetchesDone /\ location.state = None /\ View = "certificate") =>
        \A earlier \in RouteIds \ {location.id} :
            ~DerivedFromAttempt(Get(certificateData), earlier)

\* C27: after the page mounts, loading eventually becomes false on every
\* path, provided the effect runs and each store call settles: with
\* certificate data in the navigation state, without a session, with a failed
\* attempt lookup and with a built record.
C27_LoadingEnds == <>(~loading)

C27_Witness ==
    /\ ~loading
    /\ fetches # <<>>
    /\ fetches[1].outcome = "attemptError"
    /\ certificateData = None

\* the display labels of the seven levels, lowest level first
LabelTable ==
    <<"Novice", "Beginner", "Elementary", "Intermediate", "Upper Intermediate",
      "Advanced", "Proficient">>
LabelOfBand(score, label) ==
    /\ label # ""
    /\ \A k \in DOMAIN Levels : InTable(score, Levels[k]) => label = LabelTable[k]

\* C24: getCefrLabel gives A0 Novice, A1 Beginner, A2 Elementary, B1
\* Intermediate, B2 Upper Intermediate, C1 Advanced and C2 Proficient, so for
\* every integer score the label shown for the level of the score is not
\* empty and is the label of the score's band.
C24_LabelOfLevel ==
    /\ \A k \in DOMAIN Levels : getCefrLabel(Levels[k]) = LabelTable[k]
    /\ IsSome(labelA) => LabelOfBand(scoreA, Get(labelA))
    /\ IsSome(labelB) => LabelOfBand(scoreB, Get(labelB))

C24_Witness ==
    /\ scoreA = 0 - 1 /\ labelA = Some("Novice")
    /\ scoreB = 51 /\ labelB = Some("Upper Intermediate")

\* the English ordinal suffix of a day of the month
SuffixOfDay(n) ==
    IF n \in {1, 21, 31} THEN "st"
    ELSE IF n \in {2, 22} THEN "nd"
    ELSE IF n \in {3, 23} THEN "rd"
    ELSE "th"

\* C30: for a date string "DD Mon YYYY" with day 1..31 formatAwardDate
\* returns "<day><suffix> day of <full month name>, <year>", the day without
\* a leading zero and with its English ordinal suffix: st for 1, 21, 31, nd
\* for 2, 22, rd for 3, 23, th for every other day, 11, 12 and 13 included.
C30_AwardDateFormat ==
    IsSome(awardDate) =>
        \A n \in 1 .. 31, k \in DOMAIN MonthShort :
            (Len(dateStr) = 3 /\ dateStr[1] \in {ToString(n), TwoDigit(n)}
               /\ dateStr[2] = MonthShort[k]) =>
                Get(awardDate) =
                    ToString(n) \o SuffixOfDay(n) \o " day of " \o MonthFull[k]
                        \o ", " \o dateStr[3]

C30_Witness ==
    /\ dateStr = <<"12", "Mar", "2024">>
    /\ awardDate = Some("12th day of March, 2024")

\* the configured public key is not empty and starts with pk_live or pk_test
KeyRecognized ==
    /\ IsSome(env.VITE_PAYSTACK_PUBLIC_KEY)
    /\ LET key == Get(env.VITE_PAYSTACK_PUBLIC_KEY)
       IN  /\ Len(key) >= 7
           /\ [i \in 1 .. 7 |-> key[i]] \in {Str_pk_live, Str_pk_test}

\* C22: a payment can be started only with a public key that is not empty
\* and starts with pk_live or pk_test; with every other key the modal shows
\* the disabled button, the success callback never runs and no row is
\* inserted.
C22_PaymentNeedsRecognizedKey ==
    ~KeyRecognized =>
        /\ PayButton = "disabled button"
        /\ ledger = <<>>
        /\ \A u \in Users :
              /\ modal[u].pc = "idle"
              /\ ~modal[u].onSuccess
              /\ localStore[u] = NoItems

C22_Witness ==
    /\ ~KeyRecognized
    /\ env.VITE_PAYSTACK_PUBLIC_KEY # None
    /\ PayButton = "disabled button"
    /\ started = MaxCalls

\* C23: a reconcile that got an ok answer from the gateway and whose write
\* completes stores that answer on the rows of its reference, together with
\* the status derived from it; so the stored answer is always the one of the
\* reconcile that wrote last.
C23_LatestResponseStored ==
    [][\A c \in BagToSet(calls) :
          (c.pc = "update" /\ Returns(c) /\ response'.code = 200) =>
              \A i \in RowsOf(Get(c.reference)) :
                  /\ ledger'[i].paystack_response = c.json
                  /\ JsonStatus(ledger'[i].paystack_response) = response'.status
                  /\ ledger'[i].status = StoredStatus(JsonStatus(c.json))]_vars

C23_Witness ==
    /\ response.code = 200
    /\ overwritten = {"verified"}
    /\ \E i \in RowsOf(Get(response.reference)) :
          /\ ledger[i].status = "failed"
          /\ ledger[i].paystack_response \in GatewayJsons
          /\ JsonStatus(ledger[i].paystack_response) = Some("abandoned")

\* C25: the reference the client writes to the ledger, sends to
\* verify-payment and stores locally is the reference under which the
\* gateway processed the payment: the inserted row carries the reference of
\* the checkout object the gateway handed to the success callback.
C25_OneReferencePerPayment ==
    \A i \in DOMAIN ledger :
        ledger[i].paystack_response \in CheckoutObjects =>
            ledger[i].paystack_response.reference = ledger[i].reference

\* C28: a row is verified only when the amount the gateway reported for the
\* reference is the amount recorded in the row.
C28_VerifiedAmountMatches ==
    \A i \in DOMAIN ledger :
        ledger[i].status = "verified" =>
            JsonAmount(ledger[i].paystack_response) = Some(ledger[i].amount)

\* the fields of a row that no reconcile writes
KeptFields(row) ==
    [user_id |-> row.user_id, amount |-> row.amount, purpose |-> row.purpose,
     reference |-> row.reference]

\* C29: a reconcile changes only rows whose reference is its reference, and
\* in those only the status and the stored gateway response: rows with
\* another reference, and the user, amount, purpose and reference of the
\* matching rows, stay as they are, and no row is added or removed.
C29_ReconcileFrame ==
    [][\A c \in BagToSet(calls) :
          Steps(c) =>
              /\ DOMAIN ledger' = DOMAIN ledger
              /\ \A i \in DOMAIN ledger :
                    /\ ledger[i].reference # Get(c.reference) => ledger'[i] = ledger[i]
                    /\ KeptFields(ledger'[i]) = KeptFields(ledger[i])]_vars

C29_Witness ==
    /\ response.code = 200
    /\ response.reference = Some("0")
    /\ overwritten = {}
    /\ Len(ledger) = 2
    /\ ledger[1].status = "verified"
    /\ ledger[2].status = "success"

====
